---- MODULE Spec2Model ----
(***************************************************************************)
(* A model of tinygrad/runtime/ops_cuda.py: the CUDA execution backend     *)
(* (CUDAProgram, RawCUDABuffer, cuda.Context.synchronize) over the real    *)
(* pycuda driver and over the CUDACPU=1 emulation classes.                 *)
(*                                                                         *)
(* Two specifications:                                                     *)
(*   SpecBuild  CUDAProgram.__init__ over every compiled form, verbosity   *)
(*              level and outcome of the external steps;                   *)
(*   Spec       a constructed program being launched (line by line, since  *)
(*              the device runs concurrently with the host), buffers being *)
(*              copied in and out, and the device being synchronized.      *)
(***************************************************************************)
EXTENDS Integers, Sequences, FiniteSets, TLC

\* ------------------------------------------------------------------ bounds
MaxPtxLen == 3   \* tokens of a compiled form
MaxDebug == 6    \* DEBUG levels 0..MaxDebug
MaxQueue == 2    \* operations the device queue holds before the host must wait
MaxClock == 2    \* ticks of the clock

VARIABLES
  mode,      \* "real": pycuda.driver is cuda; "shim": getenv("CUDACPU") == 1
  DEBUG,     \* tinygrad.helpers.DEBUG
  \* ---- CUDAProgram.__init__
  prg,       \* self.prg: the resolved entry handle, None while unassigned
  ctor,      \* the arguments and external outcomes of the last construction
  raised,    \* the exception the last construction or launch propagated
  out,       \* what the construction printed, in order
  loaded,    \* modules loaded by module_from_buffer
  compiles,  \* calls of cuda_compile
  \* ---- CUDAProgram.__call__, the buffers and the device
  pc,        \* the host thread's position
  frame,     \* the locals of the running __call__
  invoked,   \* the calls the running __call__ made of the resolved entry
  ptxruns,   \* the calls of lib.ptx_run it made (shim)
  trace,     \* the steps of the running __call__, in order
  queue,     \* the device's work queue (real driver)
  devmem,    \* the contents behind each device handle
  shadow,    \* the contents after every issued operation, in issue order
  lastIn,    \* per buffer, the array of its latest copy_in while untouched since
  clock,     \* the clock (time.perf_counter, the device's event clock)
  last       \* the host operation that returned last, with its result

vars == <<mode, DEBUG, prg, ctor, raised, out, loaded, compiles, pc, frame,
          invoked, ptxruns, trace, queue, devmem, shadow, lastIn, clock, last>>

buildVars == <<prg, ctor, raised, out, loaded, compiles>>
runVars == <<pc, frame, invoked, ptxruns, trace, queue, devmem, shadow,
             lastIn, clock, last>>

Modes == {"real", "shim"}
DebugLevels == 0..MaxDebug

\* --------------------------------------------------- the compiled form
\* A compiled form is a sequence of tokens: "VE" is the text
\* ".visible .entry ", "(" an opening parenthesis, "a" and "b" other text.
Tokens == {"VE", "(", "a", "b"}

RECURSIVE SeqsUpTo(_, _)
SeqsUpTo(S, n) ==
  IF n = 0 THEN {<<>>}
  ELSE LET shorter == SeqsUpTo(S, n - 1)
       IN shorter \cup {Append(s, t) : s \in {x \in shorter : Len(x) = n - 1}, t \in S}

Forms == SeqsUpTo(Tokens, MaxPtxLen)

\* str.split(sep): the pieces between the occurrences of sep, in order
RECURSIVE split(_, _)
split(s, sep) ==
  IF \A i \in 1..Len(s) : s[i] # sep THEN <<s>>
  ELSE LET i == CHOOSE k \in 1..Len(s) : s[k] = sep /\ \A j \in 1..(k - 1) : s[j] # sep
       IN <<SubSeq(s, 1, i - 1)>> \o split(SubSeq(s, i + 1, Len(s)), sep)

\* the number of visible entry symbols of a compiled form
NumEntries(ptx) == Cardinality({i \in 1..Len(ptx) : ptx[i] = "VE"})

\* the name of the k-th visible entry symbol: the text from the k-th
\* ".visible .entry " to the next "(" or ".visible .entry "
EntrySymbol(ptx, k) == split(split(ptx, "VE")[k + 1], "(")[1]

\* ------------------------------------------------- CUDAProgram.__init__
NoPrg == [kind |-> "None"]
NoError == "none"

CompileResults == {"ok", "CompileError", "OSError"}

\* `except cuda.CompileError`: pycuda's CompileError under the real driver,
\* Exception (every exception) under CUDACPU=1
Catches(m, exc) == IF m = "shim" THEN TRUE ELSE exc = "CompileError"

\* lines 57-61: compile unless binary; echo the source at DEBUG >= 3 and re-raise
CompileStepSwallow(m, debug, binary, compileRes) ==
  IF binary THEN [raised |-> NoError, out |-> <<>>, compiles |-> 0]
  ELSE IF compileRes = "ok" THEN [raised |-> NoError, out |-> <<>>, compiles |-> 1]
  ELSE [raised |-> IF Catches(m, compileRes) THEN NoError ELSE compileRes,
        out |-> IF Catches(m, compileRes) /\ debug >= 3 THEN <<"FAILED TO BUILD">> ELSE <<>>,
        compiles |-> 1]

CompileStep(m, debug, binary, compileRes) ==
  IF binary THEN [raised |-> NoError, out |-> <<>>, compiles |-> 0]
  ELSE IF compileRes = "ok" THEN [raised |-> NoError, out |-> <<>>, compiles |-> 1]
  ELSE [raised |-> compileRes,
        out |-> IF Catches(m, compileRes) /\ debug >= 3 THEN <<"FAILED TO BUILD">> ELSE <<>>,
        compiles |-> 1]

\* lines 62-69: print(pretty_ptx(prg)) at DEBUG >= 5, outside any try;
\* ptxas and nvdisasm at DEBUG >= 6, inside try/except Exception
DiagStep(debug, prettyFails, sassFails) ==
  IF debug >= 5 /\ prettyFails THEN [raised |-> "DiagnosticError", out |-> <<>>]
  ELSE [raised |-> NoError,
        out |-> (IF debug >= 5 THEN <<"pretty_ptx">> ELSE <<>>)
                \o (IF debug >= 6
                    THEN (IF sassFails THEN <<"failed to generate SASS">> ELSE <<"SASS">>)
                    ELSE <<>>)]

\* cuda.module_from_buffer(...).get_function(name): a function of the loaded
\* module under the real driver; the module itself under CUDACPU=1, where
\* get_function ignores the name
get_function(m, ptx, name) ==
  IF m = "shim" THEN [kind |-> "module", src |-> ptx]
  ELSE [kind |-> "function", src |-> ptx, entry |-> name]

\* line 71: the module is loaded first, then the name is cut out of the text
LinkStep(m, ptx, loadFails) ==
  IF m = "real" /\ loadFails THEN [raised |-> "LoadError", loaded |-> 0, prg |-> NoPrg]
  ELSE IF Len(split(ptx, "VE")) < 2 THEN [raised |-> "IndexError", loaded |-> 1, prg |-> NoPrg]
  ELSE [raised |-> NoError, loaded |-> 1,
        prg |-> get_function(m, ptx, split(split(ptx, "VE")[2], "(")[1])]

\* CUDAProgram.__init__(name, prg, binary): what it raises, prints, loads and assigns
CUDAProgram_init(m, debug, in) ==
  LET c == CompileStep(m, debug, in.binary, in.compileRes)
      d == DiagStep(debug, in.prettyFails, in.sassFails)
      l == LinkStep(m, in.ptx, in.loadFails)
  IN IF c.raised # NoError
     THEN [raised |-> c.raised, out |-> c.out, compiles |-> c.compiles, loaded |-> 0, prg |-> NoPrg]
     ELSE IF d.raised # NoError
     THEN [raised |-> d.raised, out |-> c.out \o d.out, compiles |-> c.compiles, loaded |-> 0,
           prg |-> NoPrg]
     ELSE [raised |-> l.raised, out |-> c.out \o d.out, compiles |-> c.compiles,
           loaded |-> l.loaded, prg |-> l.prg]

\* what the real driver's module_from_buffer can load at all: every
\* ".visible .entry " is followed by a name and its "("
WellFormedPtx(ptx) ==
  \A i \in 1..Len(ptx) :
    ptx[i] = "VE" => (i + 2 <= Len(ptx) /\ ptx[i + 1] \in {"a", "b"} /\ ptx[i + 2] = "(")

\* the arguments of a construction and the outcomes of its external steps; the
\* load fails on a form the driver cannot parse, and may fail on any other
CtorInputs ==
  {in \in [binary : BOOLEAN, ptx : Forms, compileRes : CompileResults,
            prettyFails : BOOLEAN, sassFails : BOOLEAN, loadFails : BOOLEAN] :
     ~WellFormedPtx(in.ptx) => in.loadFails}

\* the inputs of a construction nothing goes wrong with
CleanInput(ptx) ==
  [binary |-> TRUE, ptx |-> ptx, compileRes |-> "ok", prettyFails |-> FALSE,
   sassFails |-> FALSE, loadFails |-> FALSE]

\* --------------------------------------------------------- launch sizes
\* A size is <<hi, lo>>, standing for hi * 2^16 + lo with 0 <= lo < 2^16:
\* Python's integers are unbounded, and the sizes reach past 2^31.
Big(hi, lo) == <<hi, lo>>
Leq(a, b) == a[1] < b[1] \/ (a[1] = b[1] /\ a[2] <= b[2])

\* LinearizerOptions(global_max = [65535, 65535, 2147483647], local_max = [64, 1024, 1024])
global_max == <<Big(0, 65535), Big(0, 65535), Big(32767, 65535)>>
local_max == <<Big(0, 64), Big(0, 1024), Big(0, 1024)>>

\* ctypes.c_int of a Python integer: the low 32 bits, as a signed value
c_int(a) ==
  LET h == a[1] % (2^16)
  IN IF h >= 2^15 THEN Big(h - 2^16, a[2]) ELSE Big(h, a[2])

c_ints(t) == [i \in 1..Len(t) |-> c_int(t[i])]

\* the sizes a launch is given: within the maxima, at them, and past them
GlobalSizes ==
  { <<Big(0, 1), Big(0, 1), Big(0, 1)>>,
    global_max,
    <<Big(1, 0), Big(0, 1), Big(0, 1)>>,          \* 65536 on the first axis
    <<Big(0, 1), Big(0, 1), Big(32768, 0)>> }     \* 2147483648 on the last axis
LocalSizes ==
  { <<Big(0, 1), Big(0, 1), Big(0, 1)>>,
    local_max,
    <<Big(0, 65), Big(0, 1), Big(0, 1)>> }

\* ------------------------------------------------- buffers and the device
\* two buffers, each holding one cell of one bit
Bufs == {1, 2}
Vals == {0, 1}

\* x._buf: the device handle a buffer owns
_buf(b) == <<"dptr", b>>
Handles == {_buf(b) : b \in Bufs}

\* [x._buf for x in args]
bufs_of(args) == [i \in 1..Len(args) |-> _buf(args[i])]

\* the argument lists of a launch: distinct buffers, in any order
ArgLists ==
  {a \in SeqsUpTo(Bufs, Cardinality(Bufs)) : \A i, j \in 1..Len(a) : i # j => a[i] # a[j]}

RECURSIVE SumOthers(_, _, _)
SumOthers(mem, hs, i) ==
  IF i > Len(hs) THEN 0 ELSE mem[hs[i]] + SumOthers(mem, hs, i + 1)

\* What running the kernel does to memory: it writes its first argument from
\* the others (tinygrad's kernels take the output buffer first), and touches
\* no buffer it was not given.
KernelEffect(mem, hs) ==
  IF hs = <<>> THEN mem
  ELSE [mem EXCEPT ![hs[1]] = (1 + SumOthers(mem, hs, 2)) % Cardinality(Vals)]

CopyOp(h, x) == [kind |-> "copy", args |-> <<h>>, data |-> x]
KernelOp(hs) == [kind |-> "kernel", args |-> hs, data |-> 0]
EventOp(which) == [kind |-> "event", args |-> <<>>, data |-> which]

\* one unit of queued work done on memory (an event touches none)
ApplyOp(mem, op) ==
  IF op.kind = "copy" THEN [mem EXCEPT ![op.args[1]] = op.data]
  ELSE IF op.kind = "kernel" THEN KernelEffect(mem, op.args)
  ELSE mem

IsEvent(op) == op.kind = "event"

\* ------------------------------------------------ the driver primitives
\* cuda.Event.record(): the real driver queues a marker the device stamps when
\* it reaches it; the emulation's event takes time.perf_counter() at once
Event_record(m, q, which, now) ==
  IF m = "shim" THEN [queue |-> q, stamp |-> <<now>>]
  ELSE [queue |-> Append(q, EventOp(which)), stamp |-> <<>>]

\* cuda.Event.synchronize() returns: the real driver blocks until the device
\* has stamped the event; the emulation's synchronize is `pass`
Event_synchronize_nowait(m, stamp) == TRUE

Event_synchronize(m, stamp) == m = "shim" \/ stamp # <<>>

\* self.time_till(other): pycuda gives the time from self to other; the
\* emulation's Event (line 35) gives self.start - other.start
time_till(m, self, other) ==
  IF m = "shim" THEN self[1] - other[1] ELSE other[1] - self[1]

\* x * 1e-3, kept exact as a fraction
times_1e_3(x) == [num |-> x, den |-> 1000]

\* the resolved entry called: pycuda queues the kernel on the device; the
\* emulation's module.__call__ (line 30) runs lib.ptx_run to its end with
\* len(args), the pointers, and block and grid as c_int
module_call_deferred(m, p, q, mem, hs, block, grid) ==
  [queue |-> Append(q, KernelOp(hs)), devmem |-> mem, ptxruns |-> <<>>]

module_call(m, p, q, mem, hs, block, grid) ==
  IF m = "shim"
  THEN [queue |-> q, devmem |-> KernelEffect(mem, hs),
        ptxruns |-> <<[src |-> p.src, n |-> Len(hs), ptrs |-> hs,
                       block |-> c_ints(block), grid |-> c_ints(grid)]>>]
  ELSE [queue |-> Append(q, KernelOp(hs)), devmem |-> mem, ptxruns |-> <<>>]

\* line 77: the entry called with the buffers' handles, block and grid
entry_call_swapped(p, args, local_size, global_size) ==
  [fn |-> p, args |-> bufs_of(args), block |-> global_size, grid |-> local_size]

entry_call(p, args, local_size, global_size) ==
  [fn |-> p, args |-> bufs_of(args), block |-> local_size, grid |-> global_size]

\* self.prg after a launch whose entry call raised (fault) or returned:
\* __call__ assigns nothing to self
prg_dropped_on_fault(p, fault) == IF fault THEN NoPrg ELSE p

prg_after_call(p, fault) == p

\* RawCUDABuffer._copyin: cuda.memcpy_htod_async queues the copy of the host
\* array (a pageable numpy array, whose data the driver has taken when the call
\* returns); RawMallocBuffer (CUDACPU=1) moves it into its host memory at once
RawMallocBuffer_copyin(mem, h, x) == [mem EXCEPT ![h] = x]

_copyin(m, q, mem, h, x) ==
  IF m = "shim" THEN [queue |-> q, devmem |-> RawMallocBuffer_copyin(mem, h, x)]
  ELSE [queue |-> Append(q, CopyOp(h, x)), devmem |-> mem]

\* RawCUDABuffer._copyout returns: cuda.memcpy_dtoh blocks until the work
\* queued before it is done; RawMallocBuffer reads its host memory
_copyout_async(m, q) == TRUE

_copyout(m, q) == m = "shim" \/ q = <<>>

\* cuda.Context.synchronize returns: the real driver blocks until the queue
\* is empty; the emulation's is `lambda: 0`
Context_synchronize(m, q) == m = "shim" \/ q = <<>>

\* ------------------------------------------------------- CUDAProgram.__call__
NoFrame ==
  [gs |-> <<>>, ls |-> <<>>, args |-> <<>>, wait |-> FALSE, start |-> <<>>, end |-> <<>>]

Result(op, buf, ret, span, got) ==
  [op |-> op, buf |-> buf, ret |-> ret, span |-> span, got |-> got]
NoResult == Result("none", 0, <<>>, <<>>, <<>>)

PostIssue == {"end_record", "end_sync", "time_till", "return"}

\* lines 73-76: the call begins; with wait, both events are made and start recorded
Call(global_size, local_size, args, wait) ==
  /\ pc = "idle"
  /\ prg # NoPrg
  /\ LET r == IF wait THEN Event_record(mode, queue, "start", clock)
              ELSE [queue |-> queue, stamp |-> <<>>]
     IN /\ Len(r.queue) <= MaxQueue
        /\ queue' = r.queue
        /\ frame' = [gs |-> global_size, ls |-> local_size, args |-> args, wait |-> wait,
                     start |-> r.stamp, end |-> <<>>]
  /\ trace' = IF wait THEN <<"start.record">> ELSE <<>>
  /\ invoked' = <<>>
  /\ ptxruns' = <<>>
  /\ last' = NoResult
  /\ pc' = "issue"
  /\ UNCHANGED <<mode, DEBUG, buildVars, devmem, shadow, lastIn, clock>>

\* line 77, the entry call raising: the error propagates out of __call__; the
\* events of the call are destroyed with its frame, and a destroyed event's
\* marker has no effect left
IssueFault ==
  /\ pc = "issue"
  /\ prg' = prg_after_call(prg, TRUE)
  /\ raised' = "LaunchError"
  /\ queue' = SelectSeq(queue, LAMBDA op : ~IsEvent(op))
  /\ frame' = NoFrame
  /\ trace' = <<>>
  /\ last' = Result("launch", 0, <<>>, <<>>, <<>>)
  /\ pc' = "idle"
  /\ UNCHANGED <<mode, DEBUG, ctor, out, loaded, compiles, invoked, ptxruns,
                 devmem, shadow, lastIn, clock>>

\* line 77, the entry call returning
Issue ==
  /\ pc = "issue"
  /\ LET c == entry_call(prg, frame.args, frame.ls, frame.gs)
         r == module_call(mode, c.fn, queue, devmem, c.args, c.block, c.grid)
     IN /\ Len(r.queue) <= MaxQueue
        /\ invoked' = Append(invoked, c)
        /\ ptxruns' = ptxruns \o r.ptxruns
        /\ queue' = r.queue
        /\ devmem' = r.devmem
        /\ shadow' = KernelEffect(shadow, c.args)
        /\ lastIn' = [b \in Bufs |->
                        IF \E i \in 1..Len(c.args) : c.args[i] = _buf(b) THEN <<>> ELSE lastIn[b]]
  /\ prg' = prg_after_call(prg, FALSE)
  /\ trace' = Append(trace, "issue")
  /\ pc' = IF frame.wait THEN "end_record" ELSE "return"
  /\ UNCHANGED <<mode, DEBUG, ctor, raised, out, loaded, compiles, frame, clock, last>>

\* line 79: end.record()
EndRecord ==
  /\ pc = "end_record"
  /\ LET r == Event_record(mode, queue, "end", clock)
     IN /\ Len(r.queue) <= MaxQueue
        /\ queue' = r.queue
        /\ frame' = [frame EXCEPT !.end = r.stamp]
  /\ trace' = Append(trace, "end.record")
  /\ pc' = "end_sync"
  /\ UNCHANGED <<mode, DEBUG, buildVars, invoked, ptxruns, devmem, shadow, lastIn, clock, last>>

\* line 80: end.synchronize()
EndSync ==
  /\ pc = "end_sync"
  /\ Event_synchronize(mode, frame.end)
  /\ trace' = Append(trace, "end.synchronize")
  /\ pc' = "time_till"
  /\ UNCHANGED <<mode, DEBUG, buildVars, frame, invoked, ptxruns, queue, devmem, shadow,
                 lastIn, clock, last>>

\* line 81: return start.time_till(end)*1e-3; an event never stamped has no
\* time to give, and the driver raises
Return ==
  /\ pc = "time_till"
  /\ IF frame.start = <<>> \/ frame.end = <<>>
     THEN /\ raised' = "EventNotReady"
          /\ last' = Result("launch", 0, <<>>, <<>>, <<>>)
     ELSE /\ raised' = NoError
          /\ last' = Result("launch", 0,
                            <<times_1e_3(time_till(mode, frame.start, frame.end))>>,
                            frame.start \o frame.end, <<>>)
  /\ trace' = <<>>
  /\ frame' = NoFrame
  /\ invoked' = <<>>
  /\ ptxruns' = <<>>
  /\ pc' = "idle"
  /\ UNCHANGED <<mode, DEBUG, prg, ctor, out, loaded, compiles, queue, devmem, shadow,
                 lastIn, clock>>

\* the end of __call__ with wait false: nothing is returned
ReturnNone ==
  /\ pc = "return"
  /\ raised' = NoError
  /\ last' = Result("launch", 0, <<>>, <<>>, <<>>)
  /\ frame' = NoFrame
  /\ invoked' = <<>>
  /\ ptxruns' = <<>>
  /\ pc' = "idle"
  /\ trace' = <<>>
  /\ UNCHANGED <<mode, DEBUG, prg, ctor, out, loaded, compiles, queue, devmem,
                 shadow, lastIn, clock>>

\* ------------------------------------------------- the device and the clock
\* the device does the work at the head of its queue; an event is stamped
DeviceStep ==
  /\ mode = "real"
  /\ queue # <<>>
  /\ LET op == Head(queue)
     IN /\ devmem' = ApplyOp(devmem, op)
        /\ frame' = IF ~IsEvent(op) THEN frame
                    ELSE IF op.data = "start" THEN [frame EXCEPT !.start = <<clock>>]
                    ELSE [frame EXCEPT !.end = <<clock>>]
  /\ queue' = Tail(queue)
  /\ UNCHANGED <<mode, DEBUG, buildVars, pc, invoked, ptxruns, trace, shadow, lastIn,
                 clock, last>>

\* time passes; the clock never goes back
Tick ==
  /\ clock < MaxClock
  /\ clock' = clock + 1
  /\ UNCHANGED <<mode, DEBUG, buildVars, pc, frame, invoked, ptxruns, trace, queue,
                 devmem, shadow, lastIn, last>>

\* ------------------------------------------------------------ the buffers
\* copy_in of a host array x into buffer b
CopyIn(b, x) ==
  /\ pc = "idle"
  /\ LET r == _copyin(mode, queue, devmem, _buf(b), x)
     IN /\ Len(r.queue) <= MaxQueue
        /\ queue' = r.queue
        /\ devmem' = r.devmem
  /\ shadow' = [shadow EXCEPT ![_buf(b)] = x]
  /\ lastIn' = [lastIn EXCEPT ![b] = <<x>>]
  /\ last' = Result("copy_in", b, <<>>, <<>>, <<>>)
  /\ UNCHANGED <<mode, DEBUG, buildVars, pc, frame, invoked, ptxruns, trace, clock>>

\* copy_out of buffer b into a host array
CopyOut(b) ==
  /\ pc = "idle"
  /\ _copyout(mode, queue)
  /\ last' = Result("copy_out", b, <<>>, <<>>, <<devmem[_buf(b)]>>)
  /\ UNCHANGED <<mode, DEBUG, buildVars, pc, frame, invoked, ptxruns, trace, queue,
                 devmem, shadow, lastIn, clock>>

\* the backend's synchronize (the last argument of Compiled, line 95)
Synchronize ==
  /\ pc = "idle"
  /\ Context_synchronize(mode, queue)
  /\ last' = Result("synchronize", 0, <<>>, <<>>, <<>>)
  /\ UNCHANGED <<mode, DEBUG, buildVars, pc, frame, invoked, ptxruns, trace, queue,
                 devmem, shadow, lastIn, clock>>

\* ------------------------------------------------------------ construction
\* CUDAProgram(name, prg, binary): __init__ runs once on the new object
Construct(in) ==
  /\ ctor = <<>>
  /\ LET r == CUDAProgram_init(mode, DEBUG, in)
     IN /\ prg' = r.prg
        /\ raised' = r.raised
        /\ out' = r.out
        /\ loaded' = r.loaded
        /\ compiles' = r.compiles
  /\ ctor' = <<in>>
  /\ UNCHANGED <<mode, DEBUG, runVars>>

\* ---------------------------------------------------------- specifications
InitRun ==
  /\ pc = "idle"
  /\ frame = NoFrame
  /\ invoked = <<>>
  /\ ptxruns = <<>>
  /\ trace = <<>>
  /\ queue = <<>>
  /\ lastIn = [b \in Bufs |-> <<>>]
  /\ clock = 0
  /\ last = NoResult

\* before any construction: no program object yet
InitBuild ==
  /\ mode \in Modes
  /\ DEBUG \in DebugLevels
  /\ prg = NoPrg
  /\ ctor = <<>>
  /\ raised = NoError
  /\ out = <<>>
  /\ loaded = 0
  /\ compiles = 0
  /\ InitRun
  /\ devmem = [h \in Handles |-> 0]
  /\ shadow = devmem

NextBuild == ctor = <<>> /\ \E in \in CtorInputs : Construct(in)

SpecBuild == InitBuild /\ [][NextBuild]_vars

\* the compiled form of the program being launched
BuiltForm == <<"VE", "a", "(">>

\* a program constructed from a well-formed compiled form
InitProgram ==
  /\ mode \in Modes
  /\ DEBUG = 0
  /\ LET r == CUDAProgram_init(mode, DEBUG, CleanInput(BuiltForm))
     IN /\ prg = r.prg
        /\ raised = r.raised
        /\ out = r.out
        /\ loaded = r.loaded
        /\ compiles = r.compiles
        /\ ctor = <<CleanInput(BuiltForm)>>
  /\ InitRun

\* the launches of a constructed program, over every size and argument list
Init ==
  /\ InitProgram
  /\ devmem = [h \in Handles |-> 0]
  /\ shadow = devmem

\* the sizes of a launch: global_size and local_size
LaunchSizes ==
  {<<gs, ls>> \in GlobalSizes \X LocalSizes :
     LET ones == <<Big(0, 1), Big(0, 1), Big(0, 1)>>
     IN ls = ones \/ gs = ones \/ (gs = global_max /\ ls = local_max)}

Launch ==
  \/ IssueFault
  \/ Issue
  \/ EndRecord
  \/ EndSync
  \/ Return
  \/ ReturnNone

Next ==
  \/ \E sz \in LaunchSizes, args \in ArgLists, wait \in BOOLEAN :
       Call(sz[1], sz[2], args, wait)
  \/ Launch
  \/ DeviceStep
  \/ Tick

Spec == Init /\ [][Next]_vars

\* buffers allocated (cuda.mem_alloc leaves their contents as they happen to
\* be), copied in and out, used by launches of one size, and synchronized
InitMem ==
  /\ InitProgram
  /\ devmem \in [Handles -> Vals]
  /\ shadow = devmem

NextMem ==
  \/ \E args \in ArgLists, wait \in BOOLEAN : Call(local_max, local_max, args, wait)
  \/ Launch
  \/ DeviceStep
  \/ \E b \in Bufs, x \in Vals : CopyIn(b, x)
  \/ \E b \in Bufs : CopyOut(b)
  \/ Synchronize

SpecMem == InitMem /\ [][NextMem]_vars

\* ================================================================ claims

\* every axis of both sizes within the declared maxima (line 95)
DimsValid(gs, ls) ==
  \A i \in 1..3 : Leq(gs[i], global_max[i]) /\ Leq(ls[i], local_max[i])

NoKernelQueued == \A i \in 1..Len(queue) : queue[i].kind # "kernel"

\* C1 (as claimed): a launch whose global_size or local_size exceeds a
\* declared maximum fails before the entry is called: it never gets past
\* line 77, and nothing has been handed to the device or the interpreter.
\* Stated for CUDACPU=1, where ops_cuda.py alone decides what a launch does
\* (what the real driver refuses is pycuda's own affair).
C1_OversizeLaunchRejected ==
  (mode = "shim" /\ pc # "idle" /\ ~DimsValid(frame.gs, frame.ls)) =>
    (pc = "issue" /\ invoked = <<>> /\ ptxruns = <<>> /\ NoKernelQueued)

\* the construction got as far as line 71 and the module loaded
ReachedLink ==
  /\ ctor # <<>>
  /\ ctor[1].binary \/ ctor[1].compileRes = "ok"
  /\ ~(DEBUG >= 5 /\ ctor[1].prettyFails)
  /\ ~(mode = "real" /\ ctor[1].loadFails)

\* C2 (as claimed): a compiled form with no visible entry symbol, or with two
\* or more, fails construction with LinkError; with exactly one, construction
\* succeeds and the handle is that symbol's. The IndexError line 71 raises on a
\* form with no entry is taken for the claim's LinkError.
C2_SingleEntryOrLinkError ==
  ReachedLink =>
    IF NumEntries(ctor[1].ptx) = 1
    THEN raised = NoError /\ prg = get_function(mode, ctor[1].ptx, EntrySymbol(ctor[1].ptx, 1))
    ELSE raised \in {"LinkError", "IndexError"} /\ prg = NoPrg

CompilerRejected ==
  ctor # <<>> /\ ~ctor[1].binary /\ ctor[1].compileRes = "CompileError"

\* C3: when binary is false and the compiler rejects the source, construction
\* raises the compiler's CompileError at every DEBUG level, loads no module,
\* assigns no entry handle, compiles once (no retry), and echoes the source
\* exactly when DEBUG >= 3.
C3_CompileErrorPropagates ==
  CompilerRejected =>
    /\ raised = "CompileError"
    /\ loaded = 0
    /\ prg = NoPrg
    /\ compiles = 1
    /\ out = (IF DEBUG >= 3 THEN <<"FAILED TO BUILD">> ELSE <<>>)

C3_Witness ==
  CompilerRejected /\ mode = "real" /\ DEBUG >= 3 /\ out = <<"FAILED TO BUILD">>
    /\ raised = "CompileError"

\* C4 (as claimed): the value a wait=true launch returns is the time from the
\* start stamp to the end stamp, and is >= 0.
C4_ElapsedNonNegative ==
  (last.op = "launch" /\ last.ret # <<>>) =>
    /\ last.ret[1].num = last.span[2] - last.span[1]
    /\ last.ret[1].num >= 0

\* C5: copy_out of a buffer returns the array of its latest copy_in when the
\* buffer was given to no launch since, whatever was issued on other buffers.
C5_RoundTrip ==
  (last.op = "copy_out" /\ lastIn[last.buf] # <<>>) => last.got = lastIn[last.buf]

C5_Witness ==
  /\ mode = "real"
  /\ last.op = "copy_out"
  /\ lastIn[last.buf] = <<1>>
  /\ last.got = <<1>>
  /\ \E b \in Bufs \ {last.buf} : lastIn[b] = <<>> /\ devmem[_buf(b)] # devmem[_buf(last.buf)]

\* C6: when synchronize has returned, every launch and copy issued before it
\* is done: the queue is empty and memory holds what the issued operations
\* give in issue order.
C6_SynchronizeCompletes ==
  last.op = "synchronize" => (queue = <<>> /\ devmem = shadow)

C6_Witness ==
  /\ mode = "real"
  /\ last.op = "synchronize"
  /\ \E b \in Bufs : lastIn[b] # <<>>
  /\ \E b \in Bufs : lastIn[b] = <<>>

\* the handle the construction assigned
BuiltPrg == CUDAProgram_init(mode, DEBUG, ctor[1]).prg

\* C7: a failed launch propagates its error and leaves self.prg the handle
\* assigned at construction, after any launches; a later launch calls it.
C7_ProgramSurvivesLaunches ==
  /\ prg = BuiltPrg
  /\ prg # NoPrg
  /\ raised \in {NoError, "LaunchError"}
  /\ (pc \in PostIssue => (Len(invoked) = 1 /\ invoked[1].fn = BuiltPrg))
  /\ (pc = "idle" /\ last.op = "launch" /\ raised = "LaunchError" => last.ret = <<>>)

C7_Witness ==
  raised = "LaunchError" /\ pc \in PostIssue /\ Len(invoked) = 1 /\ invoked[1].fn = prg

\* C8 (as claimed): a failure of the highlighted rendering (DEBUG >= 5) or of
\* the native lowering (DEBUG >= 6) never propagates: where construction at
\* DEBUG 0 succeeds, it loads the module and resolves the same handle.
C8_DiagnosticsNeverPropagate ==
  LET quiet == CUDAProgram_init(mode, 0, ctor[1])
  IN (/\ ctor # <<>>
      /\ (DEBUG >= 5 /\ ctor[1].prettyFails) \/ (DEBUG >= 6 /\ ctor[1].sassFails)
      /\ quiet.raised = NoError) =>
       (prg = quiet.prg /\ raised = quiet.raised /\ loaded = quiet.loaded)

\* C9: a wait=true launch records start, calls the entry, records end,
\* synchronizes end, and only then reads the time between the two events, both
\* stamped by then and the kernel done; a wait=false launch records and
\* synchronizes nothing and returns no time.
C9_WaitOrder ==
  /\ pc = "issue" => trace = (IF frame.wait THEN <<"start.record">> ELSE <<>>)
  /\ pc = "end_record" => (frame.wait /\ trace = <<"start.record", "issue">>)
  /\ pc = "end_sync" => (frame.wait /\ trace = <<"start.record", "issue", "end.record">>)
  /\ pc = "time_till" =>
       /\ frame.wait
       /\ trace = <<"start.record", "issue", "end.record", "end.synchronize">>
       /\ frame.start # <<>>
       /\ frame.end # <<>>
       /\ NoKernelQueued
  /\ pc = "return" =>
       (~frame.wait /\ trace = <<"issue">> /\ frame.start = <<>> /\ frame.end = <<>>)
  /\ raised # "EventNotReady"

C9_Witness ==
  /\ mode = "real"
  /\ pc = "time_till"
  /\ frame.start # <<>> /\ frame.end # <<>>
  /\ frame.end[1] > frame.start[1]

\* C10 (as claimed): a launch calls the resolved entry exactly once, with the
\* buffers' handles in order, block = local_size and grid = global_size; under
\* CUDACPU=1 lib.ptx_run receives those pointers in that order, their count,
\* and the same block and grid values.
C10_EntryCalledAsGiven ==
  pc \in PostIssue =>
    /\ invoked = <<[fn |-> prg, args |-> bufs_of(frame.args),
                    block |-> frame.ls, grid |-> frame.gs]>>
    /\ mode = "shim" =>
         ptxruns = <<[src |-> prg.src, n |-> Len(frame.args), ptrs |-> bufs_of(frame.args),
                      block |-> frame.ls, grid |-> frame.gs]>>

====
